---- MODULE Spec2Model ----
(***************************************************************************)
(* The accordion widget of public/index.js and the static host that        *)
(* serves it.                                                              *)
(*                                                                         *)
(* A panel is a title element and the description that follows it.  The    *)
(* title's class list either holds "expanded" or not; the description's    *)
(* inline style.display is "" (never written), "flex" or "none".           *)
(***************************************************************************)
EXTENDS Naturals, FiniteSets, Sequences

\* Number of .accordion>.title elements found by querySelectorAll.
NumPanels == 3

Panels == 1..NumPanels

VARIABLES
  expanded,       \* expanded[p]: title p's classList contains "expanded"
  display,        \* display[p]: description p's style.display
  checked,        \* multiOpen.checked, the checkbox as it is now
  written,        \* history: panels some handler has written since the page loaded
  checkedAtLoad,  \* history: the checkbox value when the script ran
  op,             \* history: kind of the most recent operation
  last,           \* history: the most recent title click since the page loaded
  prev,           \* history: the title click before that one
  memo,           \* history: one remembered click, to compare later clicks with
  target,         \* the set of panels a guided run is to expand
  inflight,       \* the host: requests received and not yet answered
  resp,           \* the host: the most recent response
  multiOpen,      \* what querySelector("#multi-open") returned
  queue,          \* the event loop: events waiting to be dispatched
  runs,           \* the event loop: handler invocations begun and not ended
  shadow,         \* history: the panels as the dispatched clicks, each applied
                  \* whole, would have left them
  ended,          \* history: how the most recent handler invocation ended
  snap            \* history: the page before the first of two clicks

vars == <<expanded, display, checked, written, checkedAtLoad, op, last, prev,
          memo, target, inflight, resp, multiOpen, queue, runs, shadow, ended,
          snap>>

pageVars == <<expanded, display, checked, written, checkedAtLoad>>
clickVars == <<op, last, prev>>
hostVars == <<inflight, resp>>
stepVars == <<multiOpen, queue, runs, shadow, ended>>

ExpandedSet == {p \in Panels : expanded[p]}

\* No click yet: p = 0 is no panel.
NoClick == [p |-> 0, chk |-> FALSE, was |-> FALSE]

\* Nothing remembered yet.
NoMemo == [p |-> 0, chk |-> FALSE, load |-> FALSE,
           preE |-> <<>>, preD |-> <<>>, postE |-> <<>>, postD |-> <<>>,
           hit |-> "no", cross |-> FALSE]

\* No set decided on.
NoTarget == [on |-> FALSE, set |-> {}]

\* No response yet.
NoResp == [method |-> "", path |-> <<>>, status |-> 0, type |-> "", by |-> ""]

\* No click dispatched yet.
NoShadow == [E |-> <<>>, D |-> <<>>, during |-> FALSE]

\* No page remembered.
NoSnap == [p |-> 0, chk |-> FALSE, wr |-> FALSE, E |-> <<>>, D |-> <<>>, n |-> 0]

----------------------------------------------------------------------------
(* The document as the script finds it. *)

\* The markup: every title without the "expanded" class, every description
\* without an inline display (the style sheet hides it).
InitialExpanded == [p \in Panels |-> FALSE]
InitialDisplay == [p \in Panels |-> ""]

\* The script's top level: it looks the elements up and registers the click
\* listeners; it writes nothing.  The checkbox may be in either position.
PageLoaded(chk) ==
  /\ expanded' = InitialExpanded
  /\ display' = InitialDisplay
  /\ written' = {}
  /\ checked' = chk
  /\ checkedAtLoad' = chk

----------------------------------------------------------------------------
(* The click listener. *)

\* classList.add in place of classList.toggle.
AddExpanded(e) == TRUE

\* this.classList.toggle("expanded")
ToggleExpanded(e) == ~e

\* description.style.display after the toggle
DisplayFor(e) == IF e THEN "flex" ELSE "none"

\* The condition without its negation.
ModeFlagNegated == ~checked

\* The checked property read once, when the script ran.
ModeFlagAtLoad == checkedAtLoad

\* !multiOpen.checked is evaluated on every click: multiOpen is the element,
\* its checked property is read when the handler runs.
ModeFlag == checked

\* A regular function as the forEach callback: its "this" is never a title,
\* so the loop body runs for every title, the clicked one included.
OthersRegularFunction(p) == Panels

\* The loop left out.
OthersNone(p) == {}

\* titles.forEach((otherTitle) => { if (otherTitle !== this) ... }):
\* which titles the loop body writes when p was clicked.
Others(p) == Panels \ {p}

\* The loop body without its first statement.
KeepExpanded(exp, qs) == exp

\* otherTitle.classList.remove("expanded")
RemoveExpanded(exp, qs) == [q \in Panels |-> IF q \in qs THEN FALSE ELSE exp[q]]

\* The loop body without its second statement.
KeepDescriptions(disp, qs) == disp

\* otherTitle.nextElementSibling.style.display = "none"
HideDescriptions(disp, qs) == [q \in Panels |-> IF q \in qs THEN "none" ELSE disp[q]]

\* A change listener that collapses every panel when the box is unchecked.
CollapseOnUncheck(exp, disp) ==
  IF checked
    THEN <<[q \in Panels |-> FALSE], [q \in Panels |-> "none"]>>
    ELSE <<exp, disp>>

\* No listener is registered on the checkbox: a change of it runs no code of
\* the widget, so the panels are what they were.
OnCheckboxChange(exp, disp) == <<exp, disp>>

ClickHandler(p) ==
  LET exp1 == [expanded EXCEPT ![p] = ToggleExpanded(@)]
      disp1 == [display EXCEPT ![p] = DisplayFor(exp1[p])]
  IN  /\ IF ~ModeFlag
           THEN /\ expanded' = RemoveExpanded(exp1, Others(p))
                /\ display' = HideDescriptions(disp1, Others(p))
                /\ written' = written \cup {p} \cup Others(p)
           ELSE /\ expanded' = exp1
                /\ display' = disp1
                /\ written' = written \cup {p}
      /\ UNCHANGED <<checked, checkedAtLoad>>

CheckboxChange ==
  /\ checked' = ~checked
  /\ expanded' = OnCheckboxChange(expanded, display)[1]
  /\ display' = OnCheckboxChange(expanded, display)[2]
  /\ UNCHANGED <<written, checkedAtLoad>>

----------------------------------------------------------------------------
(* The page: loads, title clicks and checkbox changes, one at a time. *)

\* The document has its checkbox, no event is waiting and no handler runs.
InitIdle ==
  /\ multiOpen = "element"
  /\ queue = <<>>
  /\ runs = <<>>
  /\ shadow = NoShadow
  /\ ended = "none"
  /\ snap = NoSnap

InitPage ==
  /\ expanded = InitialExpanded
  /\ display = InitialDisplay
  /\ written = {}
  /\ checked \in BOOLEAN
  /\ checkedAtLoad = checked
  /\ op = "load"
  /\ last = NoClick
  /\ prev = NoClick

Init ==
  /\ InitPage
  /\ memo = NoMemo
  /\ target = NoTarget
  /\ inflight = {}
  /\ resp = NoResp
  /\ InitIdle

Click(p) ==
  /\ ClickHandler(p)
  /\ op' = "click"
  /\ last' = [p |-> p, chk |-> checked, was |-> expanded[p]]
  /\ prev' = last
  /\ UNCHANGED <<memo, target, hostVars, stepVars, snap>>

Change ==
  /\ CheckboxChange
  /\ op' = "change"
  /\ UNCHANGED <<last, prev, memo, target, hostVars, stepVars, snap>>

Reload ==
  /\ \E chk \in BOOLEAN : PageLoaded(chk)
  /\ op' = "load"
  /\ last' = NoClick
  /\ prev' = NoClick
  /\ UNCHANGED <<memo, target, hostVars, stepVars, snap>>

Next ==
  \/ \E p \in Panels : Click(p)
  \/ Change
  \/ Reload

Spec == Init /\ [][Next]_vars

----------------------------------------------------------------------------
(* Properties of the page under Spec. *)

\* C1: right after a click handled with the checkbox unchecked, at most one
\* panel is expanded, and an expanded panel is the one just clicked.
C1_ExclusiveAfterClick ==
  (op = "click" /\ ~last.chk) =>
    /\ Cardinality(ExpandedSet) <= 1
    /\ ExpandedSet # {} => ExpandedSet = {last.p}

\* A click on a collapsed panel, with the checkbox unchecked, while the panel
\* clicked before it was still expanded: only the clicked one is expanded now.
C1_Witness ==
  /\ op = "click" /\ ~last.chk /\ ~last.was
  /\ prev.p \in Panels \ {last.p} /\ ~prev.was
  /\ ExpandedSet = {last.p}

\* C2: a click on a title flips that title's expanded flag, whatever the
\* checkbox says and whatever the other panels are.
C2_ClickToggles ==
  op = "click" => expanded[last.p] = ~last.was

\* An expanded panel clicked with the checkbox checked and another panel
\* expanded: it is collapsed now.
C2_Witness ==
  /\ op = "click" /\ last.chk /\ last.was
  /\ ~expanded[last.p]
  /\ ExpandedSet # {}

\* C3: a click handled with the checkbox checked leaves the checkbox and
\* every panel other than the clicked one as they were.
C3_MultiOpenFrame ==
  [][(op' = "click" /\ last'.chk) =>
       /\ checked' = checked
       /\ \A q \in Panels \ {last'.p} :
            expanded'[q] = expanded[q] /\ display'[q] = display[q]]_vars

\* Two clicks on two different collapsed panels with the checkbox checked:
\* both are expanded.
C3_Witness ==
  /\ op = "click" /\ last.chk /\ ~last.was
  /\ prev.p \in Panels \ {last.p} /\ ~prev.was
  /\ ExpandedSet = {last.p, prev.p}
  /\ display[prev.p] = "flex"

\* C4 as stated: whenever the checkbox is unchecked, at most one panel is
\* expanded.
C4_ExclusiveAlways ==
  ~checked => Cardinality(ExpandedSet) <= 1

\* C4, amended: whenever the checkbox is unchecked and the most recent title
\* click since the page loaded was handled with the checkbox unchecked, at
\* most one panel is expanded.
C4_ExclusiveSinceUncheckedClick ==
  (~checked /\ last.p \in Panels /\ ~last.chk) => Cardinality(ExpandedSet) <= 1

\* The checkbox was changed after an unchecked click that closed another
\* panel, and is unchecked again: the one panel is still the only one.
C4_Witness ==
  /\ op = "change" /\ ~checked
  /\ last.p \in Panels /\ ~last.chk
  /\ prev.p \in Panels \ {last.p} /\ ~prev.was /\ prev.chk
  /\ ExpandedSet = {last.p}

\* C6: two clicks in a row on a collapsed title, both handled with the
\* checkbox unchecked, leave that panel collapsed.
C6_DoubleClickCollapsed ==
  (last.p \in Panels /\ prev.p = last.p /\ ~prev.chk /\ ~last.chk /\ ~prev.was) =>
    ~expanded[last.p] /\ display[last.p] = "none"

\* The second of two such clicks has just been handled.
C6_Witness ==
  /\ op = "click"
  /\ last.p \in Panels /\ prev.p = last.p /\ ~prev.chk /\ ~last.chk /\ ~prev.was
  /\ last.was
  /\ ~expanded[last.p]

\* C8: a description's display is "flex" exactly when its title is expanded;
\* a panel some handler has written shows "none" exactly when it is not
\* expanded; a panel no handler has written has no inline display and is not
\* expanded.
C8_DisplayMatchesExpanded ==
  \A p \in Panels :
    /\ display[p] = "flex" <=> expanded[p]
    /\ p \in written => (display[p] = "none" <=> ~expanded[p])
    /\ p \notin written => (display[p] = "" /\ ~expanded[p])

\* One panel expanded, one collapsed again by a second click on it, and one
\* never written.
C8_Witness ==
  /\ op = "click" /\ last.chk /\ last.was
  /\ display[last.p] = "none" /\ ~expanded[last.p]
  /\ \E p, r \in Panels :
       /\ expanded[p] /\ display[p] = "flex"
       /\ r \notin written /\ display[r] = ""

\* C10: a change of the checkbox leaves every panel's expanded flag and
\* display as they were.
C10_ChangeLeavesPanels ==
  [][(op' = "change" /\ checked' # checked) =>
       expanded' = expanded /\ display' = display]_vars

\* The checkbox has just been unchecked with several panels expanded.
C10_Witness ==
  /\ op = "change" /\ ~checked
  /\ Cardinality(ExpandedSet) >= 2
  /\ \A p \in ExpandedSet : display[p] = "flex"

----------------------------------------------------------------------------
(* A guided run.  The page is used freely; at some moment, the initial     *)
(* state included, a user decides on a set of panels to have expanded.     *)
(* From then on the user checks the box if it is not checked and clicks    *)
(* only titles whose state is not yet the wanted one, and keeps going      *)
(* while there is something left to do.  Every behaviour of SpecReach is a *)
(* behaviour of the page, so what a guided run arrives at is reachable.    *)

InitReach ==
  /\ InitPage
  /\ memo = NoMemo
  /\ target = NoTarget
  /\ inflight = {}
  /\ resp = NoResp
  /\ InitIdle

FreeClick(p) ==
  /\ ~target.on
  /\ Click(p)

FreeChange ==
  /\ ~target.on
  /\ Change

FreeReload ==
  /\ ~target.on
  /\ Reload

Decide(S) ==
  /\ ~target.on
  /\ target' = [on |-> TRUE, set |-> S]
  /\ UNCHANGED <<pageVars, clickVars, memo, hostVars, stepVars, snap>>

GuidedCheck ==
  /\ target.on
  /\ ~checked
  /\ Change

GuidedClick(p) ==
  /\ target.on
  /\ checked
  /\ expanded[p] # (p \in target.set)
  /\ Click(p)

Guided ==
  \/ GuidedCheck
  \/ \E p \in Panels : GuidedClick(p)

NextReach ==
  \/ \E p \in Panels : FreeClick(p)
  \/ FreeChange
  \/ FreeReload
  \/ \E S \in SUBSET Panels : Decide(S)
  \/ Guided

SpecReach == InitReach /\ [][NextReach]_vars /\ WF_vars(Guided)

\* C5: with the checkbox checked, every set of panels is reached as the set
\* of expanded panels by some sequence of clicks: whatever set is decided
\* on, in the initial state or later, the guided run arrives at it.
C5_EverySubsetReached ==
  [](target.on => <>(checked /\ ExpandedSet = target.set))

\* A set of two panels, not all of them, has been reached on a page loaded
\* with the checkbox checked, by the two clicks that expanded them.
C5_Witness ==
  /\ target.on /\ checked /\ checkedAtLoad
  /\ op = "click" /\ prev.p \in Panels /\ ~last.was /\ ~prev.was
  /\ ExpandedSet = target.set
  /\ target.set = {last.p, prev.p}
  /\ written = target.set
  /\ target.set # Panels

----------------------------------------------------------------------------
(* Two runs compared.  One click is remembered: the panels before it, the  *)
(* clicked title, the checkbox at that moment, and the panels after it.    *)
(* The page is then used on, reloads included, and every later click on    *)
(* the same title from the same panels with the same checkbox value is     *)
(* compared with the remembered one.                                       *)

InitHist ==
  /\ InitPage
  /\ memo = NoMemo
  /\ target = NoTarget
  /\ inflight = {}
  /\ resp = NoResp
  /\ InitIdle

\* The click on p that is being handled, as a remembered click.
Remembered(p) ==
  [p |-> p, chk |-> checked, load |-> checkedAtLoad,
   preE |-> expanded, preD |-> display, postE |-> expanded', postD |-> display',
   hit |-> "no", cross |-> FALSE]

\* The click on p that is being handled starts where the remembered one did.
SameStart(p) ==
  /\ memo.p = p
  /\ memo.chk = checked
  /\ memo.preE = expanded
  /\ memo.preD = display

\* The remembered click after the comparison with the click being handled.
Compared ==
  [memo EXCEPT
     !.hit = IF memo.hit # "differ" /\ memo.postE = expanded' /\ memo.postD = display'
               THEN "agree" ELSE "differ",
     !.cross = @ \/ (checkedAtLoad # memo.load)]

ClickHist(p) ==
  /\ ClickHandler(p)
  /\ memo' \in IF memo = NoMemo THEN {NoMemo, Remembered(p)}
               ELSE IF SameStart(p) THEN {Compared}
               ELSE {memo}
  /\ UNCHANGED <<clickVars, target, hostVars, stepVars, snap>>

ChangeHist ==
  /\ CheckboxChange
  /\ UNCHANGED <<clickVars, memo, target, hostVars, stepVars, snap>>

ReloadHist ==
  /\ \E chk \in BOOLEAN : PageLoaded(chk)
  /\ UNCHANGED <<clickVars, memo, target, hostVars, stepVars, snap>>

NextHist ==
  \/ \E p \in Panels : ClickHist(p)
  \/ ChangeHist
  \/ ReloadHist

SpecHist == InitHist /\ [][NextHist]_vars

\* C9: what a click does depends only on the panels, the clicked title and
\* the checkbox value at that click: a click that starts where a remembered
\* click started ends where it ended, whatever the checkbox was when the
\* page loaded and however it was changed since.
C9_ClickReadsCheckboxNow ==
  memo.hit # "differ"

\* A click handled with the checkbox checked, with another panel expanded,
\* agreed with the same click on a page whose checkbox was in the other
\* position when it loaded.
C9_Witness ==
  /\ memo.hit = "agree" /\ memo.cross
  /\ memo.chk /\ ~memo.load
  /\ \E q \in Panels \ {memo.p} : memo.preE[q] /\ memo.postE[q]

----------------------------------------------------------------------------
(* The static host.  A request path is the sequence of its segments: "/"   *)
(* is <<>>, "/static" is <<"static">>, "/static/" is <<"static", "">> and  *)
(* "/static/index.js" is <<"static", "index.js">>.                         *)

\* At most this many requests are in flight.
MaxInflight == 2

Methods == {"GET", "HEAD", "POST"}

Paths == { <<>>, <<"static">>, <<"static", "">>, <<"static", "index.js">>,
           <<"static", "index.html">>, <<"static", "nope.css">>,
           <<"index.html">>, <<"index.js">>, <<"staticindex.js">> }

Requests == [method : Methods, path : Paths]

\* The files of the public directory.
PublicFiles == {"index.html", "index.js"}

\* The content type the host library derives from a file's extension.
ContentType(file) ==
  IF file = "index.html" THEN "text/html"
  ELSE IF file = "index.js" THEN "application/javascript"
  ELSE "application/octet-stream"

\* The path does not pass through this middleware.
NoMatch == <<"*">>

\* The static middleware mounted at the root: every path reaches it, whole.
MountedAtRoot(path) == IF path = <<>> THEN <<"">> ELSE path

\* app.use('/static', ...): the middleware sees the paths whose first segment
\* is "static", with that segment stripped.
Mounted(path) ==
  IF path # <<>> /\ Head(path) = "static" THEN Tail(path) ELSE NoMatch

\* The route registered for "/index.html" in place of "/".
RouteMatchesIndex(method, path) ==
  method \in {"GET", "HEAD"} /\ path = <<"index.html">>

\* app.get("/", ...): GET and HEAD requests for the root path.
RouteMatches(method, path) ==
  method \in {"GET", "HEAD"} /\ path = <<>>

Response(req, status, type, by) ==
  [method |-> req.method, path |-> req.path, status |-> status, type |-> type, by |-> by]

\* The request has fallen through every handler.
NotFound(req) == Response(req, 404, "text/html", "notfound")

\* res.sendFile(path.join(__dirname, "public", "index.html"))
SendFile(req, file) ==
  IF file \in PublicFiles
    THEN Response(req, 200, ContentType(file), "route")
    ELSE NotFound(req)

\* express.static('public') on the stripped path sub.  It answers GET and
\* HEAD only: the directory itself redirects to its trailing-slash form, "/"
\* is the directory's index.html, a file that exists is sent; anything else
\* is passed on.
ServeStatic(req, sub) ==
  IF req.method \notin {"GET", "HEAD"} THEN NoResp
  ELSE IF sub = <<>> THEN Response(req, 301, "text/html", "static")
  ELSE IF sub = <<"">> /\ "index.html" \in PublicFiles
    THEN Response(req, 200, ContentType("index.html"), "static")
  ELSE IF Len(sub) = 1 /\ sub[1] \in PublicFiles
    THEN Response(req, 200, ContentType(sub[1]), "static")
  ELSE NoResp

\* The handlers in the order they were registered.
Dispatch(req) ==
  LET sub == Mounted(req.path)
      st == IF sub = NoMatch THEN NoResp ELSE ServeStatic(req, sub)
  IN  IF st # NoResp THEN st
      ELSE IF RouteMatches(req.method, req.path) THEN SendFile(req, "index.html")
      ELSE NotFound(req)

InitHost ==
  /\ InitPage
  /\ memo = NoMemo
  /\ target = NoTarget
  /\ inflight = {}
  /\ resp = NoResp
  /\ InitIdle

Receive(req) ==
  /\ req \notin inflight
  /\ Cardinality(inflight) < MaxInflight
  /\ inflight' = inflight \cup {req}
  /\ UNCHANGED <<resp, pageVars, clickVars, memo, target, stepVars, snap>>

Respond(req) ==
  /\ req \in inflight
  /\ inflight' = inflight \ {req}
  /\ resp' = Dispatch(req)
  /\ UNCHANGED <<pageVars, clickVars, memo, target, stepVars, snap>>

NextHost ==
  \/ \E req \in Requests : Receive(req)
  \/ \E req \in Requests : Respond(req)

SpecHost == InitHost /\ [][NextHost]_vars

\* C7: GET / is answered by the route with status 200 and the HTML document,
\* not by the static middleware and not as not found.
C7_RootServedByRoute ==
  (resp.method = "GET" /\ resp.path = <<>>) =>
    resp.status = 200 /\ resp.type = "text/html" /\ resp.by = "route"

\* GET / has been answered while a request for a static file was in flight.
C7_Witness ==
  /\ resp.method = "GET" /\ resp.path = <<>> /\ resp.by = "route"
  /\ \E r \in inflight : r.path = <<"static", "index.html">>

----------------------------------------------------------------------------
(* The click listener step by step, on the browser's event loop.  A click  *)
(* or a checkbox change by the user is queued; the loop dispatches the     *)
(* oldest waiting event when it may.  An event is a panel, for a click on  *)
(* its title, or 0, for a change of the checkbox.  An invocation of the    *)
(* listener is at one of its statements: "toggle" (line 10), "display"     *)
(* (lines 11-15), "read" (line 16) or "loop" (lines 19-37, about to visit  *)
(* title i).                                                               *)

\* At most this many events wait in the queue.
MaxQueue == 2

ChangeEvent == 0

Events == Panels \cup {ChangeEvent}

\* The sequence without its k-th element.
Without(seq, k) == [j \in 1..(Len(seq) - 1) |-> IF j < k THEN seq[j] ELSE seq[j + 1]]

\* multiOpen?.checked: no checkbox reads as not checked.
CheckedOfOptional(el) ==
  IF el = "null" THEN [fault |-> FALSE, value |-> FALSE]
  ELSE [fault |-> FALSE, value |-> ModeFlag]

\* multiOpen.checked: a TypeError when querySelector found no checkbox.
CheckedOf(el) ==
  IF el = "null" THEN [fault |-> TRUE, value |-> FALSE]
  ELSE [fault |-> FALSE, value |-> ModeFlag]

\* A listener that gives the loop a turn between its statements.
CanStartAnyTime == TRUE

\* The listener is a plain function with nothing asynchronous in it: the
\* event loop dispatches the next event only when no invocation is under way.
CanStart == runs = <<>>

\* The whole listener, for a click on p in a document with its checkbox, as
\* a function of the panels.
AtomicEffect(exp, disp, p) ==
  LET exp1 == [exp EXCEPT ![p] = ToggleExpanded(@)]
      disp1 == [disp EXCEPT ![p] = DisplayFor(exp1[p])]
  IN  IF ~ModeFlag
        THEN <<RemoveExpanded(exp1, Others(p)), HideDescriptions(disp1, Others(p))>>
        ELSE <<exp1, disp1>>

\* The user clicks a title or changes the checkbox, if there is one.
Enqueue(e) ==
  /\ Len(queue) < MaxQueue
  /\ e = ChangeEvent => multiOpen = "element"
  /\ queue' = Append(queue, e)

\* The checkbox takes its new value; no code of the widget runs.
DispatchChange ==
  /\ CanStart
  /\ queue # <<>> /\ Head(queue) = ChangeEvent
  /\ queue' = Tail(queue)
  /\ CheckboxChange
  /\ UNCHANGED runs

\* The listener is called for the click.
DispatchClick ==
  /\ CanStart
  /\ queue # <<>> /\ Head(queue) \in Panels
  /\ queue' = Tail(queue)
  /\ runs' = Append(runs, [p |-> Head(queue), pc |-> "toggle", i |-> 0])
  /\ UNCHANGED pageVars

\* Line 10.
StepToggle(k) ==
  /\ runs[k].pc = "toggle"
  /\ expanded' = [expanded EXCEPT ![runs[k].p] = ToggleExpanded(@)]
  /\ written' = written \cup {runs[k].p}
  /\ runs' = [runs EXCEPT ![k].pc = "display"]
  /\ UNCHANGED <<display, checked, checkedAtLoad, ended>>

\* Lines 11-15.
StepDisplay(k) ==
  /\ runs[k].pc = "display"
  /\ display' = [display EXCEPT ![runs[k].p] = DisplayFor(expanded[runs[k].p])]
  /\ runs' = [runs EXCEPT ![k].pc = "read"]
  /\ UNCHANGED <<expanded, written, checked, checkedAtLoad, ended>>

\* Line 16: the read of multiOpen.checked throws, or the listener goes on to
\* the loop, or it returns.
StepRead(k) ==
  /\ runs[k].pc = "read"
  /\ LET c == CheckedOf(multiOpen)
     IN  IF c.fault
           THEN runs' = Without(runs, k) /\ ended' = "fault"
         ELSE IF ~c.value
           THEN runs' = [runs EXCEPT ![k].pc = "loop", ![k].i = 1] /\ ended' = ended
         ELSE runs' = Without(runs, k) /\ ended' = "returned"
  /\ UNCHANGED pageVars

\* Lines 19-37: one call of the forEach callback, for title i.
StepLoop(k) ==
  /\ runs[k].pc = "loop"
  /\ LET i == runs[k].i
         qs == {i} \cap Others(runs[k].p)
     IN  /\ expanded' = RemoveExpanded(expanded, qs)
         /\ display' = HideDescriptions(display, qs)
         /\ written' = written \cup qs
         /\ IF i = NumPanels
              THEN runs' = Without(runs, k) /\ ended' = "returned"
              ELSE runs' = [runs EXCEPT ![k].i = i + 1] /\ ended' = ended
  /\ UNCHANGED <<checked, checkedAtLoad>>

InitSteps ==
  /\ InitPage
  /\ memo = NoMemo
  /\ target = NoTarget
  /\ inflight = {}
  /\ resp = NoResp
  /\ multiOpen = "element"
  /\ queue = <<>>
  /\ runs = <<>>
  /\ shadow = [E |-> InitialExpanded, D |-> InitialDisplay, during |-> FALSE]
  /\ ended = "none"
  /\ snap = NoSnap

otherVars == <<clickVars, memo, target, hostVars, multiOpen, snap>>

UserEvent(e) ==
  /\ Enqueue(e)
  /\ shadow' = [shadow EXCEPT !.during = @ \/ runs # <<>>]
  /\ UNCHANGED <<pageVars, runs, ended, otherVars>>

LoopChange ==
  /\ DispatchChange
  /\ UNCHANGED <<shadow, ended, otherVars>>

LoopClick ==
  /\ DispatchClick
  /\ LET after == AtomicEffect(shadow.E, shadow.D, Head(queue))
     IN  shadow' = [shadow EXCEPT !.E = after[1], !.D = after[2]]
  /\ UNCHANGED <<ended, otherVars>>

Toggle(k) == StepToggle(k) /\ UNCHANGED <<queue, shadow, otherVars>>

Display(k) == StepDisplay(k) /\ UNCHANGED <<queue, shadow, otherVars>>

Read(k) == StepRead(k) /\ UNCHANGED <<queue, shadow, otherVars>>

Loop(k) == StepLoop(k) /\ UNCHANGED <<queue, shadow, otherVars>>

NextSteps ==
  \/ \E e \in Events : UserEvent(e)
  \/ LoopChange
  \/ LoopClick
  \/ \E k \in 1..Len(runs) : Toggle(k)
  \/ \E k \in 1..Len(runs) : Display(k)
  \/ \E k \in 1..Len(runs) : Read(k)
  \/ \E k \in 1..Len(runs) : Loop(k)

SpecSteps == InitSteps /\ [][NextSteps]_vars

\* C11: invocations of the click listener never overlap, and whenever no
\* invocation is under way the panels are as the clicks dispatched so far,
\* each applied as one atomic transition in the order of dispatch, leave them.
C11_HandlersRunToCompletion ==
  /\ Len(runs) <= 1
  /\ runs = <<>> => (expanded = shadow.E /\ display = shadow.D)

\* The user clicked while an invocation was under way; that click waited,
\* both clicks have been handled with the checkbox unchecked, and the panel
\* clicked second is the one expanded.
C11_Witness ==
  /\ runs = <<>> /\ queue = <<>>
  /\ shadow.during /\ ended = "returned" /\ ~checked /\ ~checkedAtLoad
  /\ written = Panels
  /\ ExpandedSet = {NumPanels}
  /\ expanded = shadow.E /\ display = shadow.D

----------------------------------------------------------------------------
(* A document without the checkbox: querySelector("#multi-open") returned  *)
(* null.  Only titles can be clicked.  The page as it was when the         *)
(* listener was called is remembered in snap.                              *)

\* The statement the k-th invocation is at.
HandlerStep(k) ==
  CASE runs[k].pc = "toggle" -> StepToggle(k)
    [] runs[k].pc = "display" -> StepDisplay(k)
    [] runs[k].pc = "read" -> StepRead(k)
    [] runs[k].pc = "loop" -> StepLoop(k)

InitFault ==
  /\ expanded = InitialExpanded
  /\ display = InitialDisplay
  /\ written = {}
  /\ checked = FALSE
  /\ checkedAtLoad = FALSE
  /\ op = "load"
  /\ last = NoClick
  /\ prev = NoClick
  /\ memo = NoMemo
  /\ target = NoTarget
  /\ inflight = {}
  /\ resp = NoResp
  /\ multiOpen = "null"
  /\ queue = <<>>
  /\ runs = <<>>
  /\ shadow = NoShadow
  /\ ended = "none"
  /\ snap = NoSnap

restVars == <<clickVars, memo, target, hostVars, multiOpen, shadow>>

FaultUserEvent(e) ==
  /\ Enqueue(e)
  /\ UNCHANGED <<pageVars, runs, ended, snap, restVars>>

FaultClick ==
  /\ DispatchClick
  /\ snap' = [p |-> Head(queue), chk |-> FALSE, wr |-> Head(queue) \in written,
              E |-> expanded, D |-> display, n |-> 1]
  /\ UNCHANGED <<ended, restVars>>

FaultStep(k) ==
  /\ HandlerStep(k)
  /\ UNCHANGED <<queue, snap, restVars>>

NextFault ==
  \/ \E e \in Events : FaultUserEvent(e)
  \/ FaultClick
  \/ \E k \in 1..Len(runs) : FaultStep(k)

SpecFault == InitFault /\ [][NextFault]_vars

\* The panels after a click on p from the remembered page, if the click
\* toggles p's flag and display and writes nothing else.
C12_OnlyClickedToggled ==
  /\ expanded = [snap.E EXCEPT ![snap.p] = ~@]
  /\ display = [snap.D EXCEPT ![snap.p] = IF snap.E[snap.p] THEN "none" ELSE "flex"]

\* C12: without the checkbox every click ends in a fault; when the fault is
\* raised the clicked panel's flag and display have been toggled, and no
\* other panel is written by the click: the listener never enters its loop.
C12_FaultAfterToggle ==
  /\ ended \in {"none", "fault"}
  /\ \A k \in 1..Len(runs) :
       /\ runs[k].pc # "loop"
       /\ runs[k].pc = "read" => C12_OnlyClickedToggled
  /\ (runs = <<>> /\ snap.p \in Panels) => (ended = "fault" /\ C12_OnlyClickedToggled)

\* A click has ended in a fault with its panel expanded by it, while another
\* panel, expanded before the click, is still expanded.
C12_Witness ==
  /\ runs = <<>> /\ ended = "fault"
  /\ snap.p \in Panels /\ ~snap.E[snap.p] /\ expanded[snap.p]
  /\ display[snap.p] = "flex"
  /\ \E q \in Panels \ {snap.p} : snap.E[q] /\ expanded[q] /\ display[q] = "flex"

----------------------------------------------------------------------------
(* Two clicks in a row on one title.  At a click the page may be           *)
(* remembered as it was before the click; if the next operation is a click *)
(* on the same title with the checkbox as it was, the two clicks are a     *)
(* double click (snap.n = 2).  A change of the checkbox or a reload in     *)
(* between discards what was remembered.                                   *)

InitDouble ==
  /\ InitPage
  /\ memo = NoMemo
  /\ target = NoTarget
  /\ inflight = {}
  /\ resp = NoResp
  /\ InitIdle

\* The page before the click on p that is being handled.
Taken(p) ==
  [p |-> p, chk |-> checked, wr |-> p \in written,
   E |-> expanded, D |-> display, n |-> 1]

ClickDouble(p) ==
  /\ ClickHandler(p)
  /\ snap' \in IF snap.n = 1 /\ snap.p = p /\ snap.chk = checked
                 THEN {[snap EXCEPT !.n = 2]}
                 ELSE {NoSnap, Taken(p)}
  /\ UNCHANGED <<clickVars, memo, target, hostVars, stepVars>>

ChangeDouble ==
  /\ CheckboxChange
  /\ snap' = NoSnap
  /\ UNCHANGED <<clickVars, memo, target, hostVars, stepVars>>

ReloadDouble ==
  /\ \E chk \in BOOLEAN : PageLoaded(chk)
  /\ snap' = NoSnap
  /\ UNCHANGED <<clickVars, memo, target, hostVars, stepVars>>

NextDouble ==
  \/ \E p \in Panels : ClickDouble(p)
  \/ ChangeDouble
  \/ ReloadDouble

SpecDouble == InitDouble /\ [][NextDouble]_vars

\* C13: after a double click with the checkbox checked throughout, on a
\* panel some handler had written before, every panel's flag and display
\* are what they were before the first click.  After a double click with
\* the checkbox unchecked throughout, the clicked panel's flag is what it
\* was, and so is its display if the panel had been written before, and
\* every other panel is collapsed with display "none".
C13_DoubleClickRestores ==
  snap.n = 2 =>
    IF snap.chk
      THEN snap.wr => (expanded = snap.E /\ display = snap.D)
      ELSE /\ expanded[snap.p] = snap.E[snap.p]
           /\ snap.wr => display[snap.p] = snap.D[snap.p]
           /\ \A q \in Panels \ {snap.p} : ~expanded[q] /\ display[q] = "none"

\* A double click with the checkbox checked on a collapsed panel that had
\* been written, with another panel expanded and a third never written:
\* the page is as it was.
C13_Witness ==
  /\ snap.n = 2 /\ snap.chk /\ snap.wr
  /\ ~snap.E[snap.p] /\ snap.D[snap.p] = "none"
  /\ \E q \in Panels \ {snap.p} : snap.E[q]
  /\ \E r \in Panels : r \notin written
  /\ expanded = snap.E /\ display = snap.D

====
